---- MODULE Spec2Model ----
(***************************************************************************)
(* Backend dispatch of the patched estimators of scikit-learn-intelex:     *)
(*   sklearnex/preview/cluster/k_means.py  (class KMeans)                  *)
(*   sklearnex/decomposition/pca.py        (class PCA)                     *)
(* One estimator object is followed through hyperparameter changes and     *)
(* calls of its public methods.  Every call is one step; `last` records    *)
(* what the call did: the capability predicates queried, the callables     *)
(* invoked, the exception raised (if any) and the log records emitted.     *)
(***************************************************************************)
EXTENDS Integers, Sequences, FiniteSets, TLC

VARIABLES cls, device, km, pca, last, ver

vars == <<cls, device, km, pca, last, ver>>

(***************************************************************************)
(* Bounds of the model.                                                    *)
(***************************************************************************)
MaxSamples == 2       \* rows of a KMeans input and n_clusters: 1..MaxSamples
MaxFits == 2          \* completed fits followed on one estimator
CpuCount == 4         \* multiprocessing.cpu_count() of the machine

None == "None"
Absent == "absent"    \* the instance has no such attribute

Devices == {"cpu", "gpu"}

(***************************************************************************)
(* Inputs.  An input X is dense, sparse, or an object that has neither a   *)
(* length nor a shape (a scalar), for which sklearn's _num_samples raises  *)
(* TypeError.                                                              *)
(***************************************************************************)
KMeansInputs ==
    [kind : {"dense", "sparse"}, n : 1..MaxSamples] \cup {[kind |-> "scalar", n |-> 0]}

SampleWeights == {None, "weights"}

issparse(X) == X.kind = "sparse"

\* sklearn.utils.validation._num_samples: the number of rows, or TypeError
\* for an object with neither __len__ nor shape.
has_num_samples(X) == X.kind # "scalar"

_num_samples(X) == X.n

(***************************************************************************)
(* KMeans: hyperparameters and instance attributes.                        *)
(***************************************************************************)
Algorithms == {"auto", "full", "lloyd", "elkan"}

\* n_jobs = None (the default) is written NoJobs.
NoJobs == 0

NJobsValues == {NoJobs, -1, 1, 2}

\* self._onedal_estimator: NoEstimator when the instance has no such
\* attribute, else the generation of the cluster centers the backend
\* estimator holds (0: it holds None).
NoEstimator == -1

\* cluster_centers_ = 0 is the class attribute None (nothing fitted); g > 0
\* is the array learned by the g-th completed fit.
KMeansInit(n_clusters, init_sparse, algorithm, n_jobs) ==
    [n_clusters |-> n_clusters,
     init_sparse |-> init_sparse,
     algorithm |-> algorithm,
     n_jobs |-> n_jobs,
     _algorithm |-> Absent,
     cluster_centers_ |-> 0,
     _onedal_estimator |-> NoEstimator]

KMeansFitted(self) == self.cluster_centers_ # 0

supported_algs == {"auto", "full", "lloyd"}

\* PatchingConditionsChain.and_conditions: the chain passes when every
\* condition of the list passes.
and_conditions(conds) ==
    IF \A i \in 1..Len(conds) : conds[i] THEN "supported" ELSE "unsupported"

\* A predicate's answer: what it returned or raised, and the estimator as
\* the call left it.
Answer(result, self) == [result |-> result, self |-> self]

Returned(result) == result \in {"supported", "unsupported"}

\* Variant: the check of the input's sparsity is left out.
KMeansFitConditionsNoSparse(self, X, sample_weight) ==
    <<self.algorithm \in supported_algs,
      ~self.init_sparse,
      self.n_clusters < _num_samples(X),
      sample_weight = None>>

KMeansFitConditions(self, X, sample_weight) ==
    <<self.algorithm \in supported_algs,
      ~self.init_sparse,
      self.n_clusters < _num_samples(X),
      sample_weight = None,
      ~issparse(X)>>

_onedal_fit_supported(self, method_name, X, sample_weight) ==
    IF method_name # "fit" THEN Answer("AssertionError", self)
    ELSE IF ~has_num_samples(X) THEN Answer("TypeError", self)
    ELSE Answer(and_conditions(KMeansFitConditions(self, X, sample_weight)),
                [self EXCEPT !._algorithm = self.algorithm])

KMeansPredictConditions(self, X) ==
    <<self.algorithm \in supported_algs,
      TRUE,            \* cluster_centers_ is None or a dense ndarray
      ~issparse(X)>>

\* Variant: predict is accelerated only once a backend estimator exists.
PredictSupportedIfEstimator(self, method_name, X) ==
    IF method_name # "predict" THEN Answer("AssertionError", self)
    ELSE Answer(and_conditions(KMeansPredictConditions(self, X)
                               \o <<self._onedal_estimator # NoEstimator>>), self)

_onedal_predict_supported(self, method_name, X) ==
    IF method_name # "predict" THEN Answer("AssertionError", self)
    ELSE Answer(and_conditions(KMeansPredictConditions(self, X)), self)

KMeans_onedal_supported(self, method_name, X, sample_weight) ==
    IF method_name = "fit" THEN _onedal_fit_supported(self, method_name, X, sample_weight)
    ELSE IF method_name = "predict" THEN _onedal_predict_supported(self, method_name, X)
    ELSE Answer("RuntimeError", self)

KMeans_onedal_gpu_supported(self, method_name, X, sample_weight) ==
    KMeans_onedal_supported(self, method_name, X, sample_weight)

KMeans_onedal_cpu_supported(self, method_name, X, sample_weight) ==
    KMeans_onedal_supported(self, method_name, X, sample_weight)

(***************************************************************************)
(* daal4py.sklearn._utils.run_with_n_jobs, the decorator of _onedal_fit    *)
(* and _onedal_predict: before the wrapped method runs it emits the        *)
(* record "<Class>.<method>: setting N threads" on the sklearnex logger.   *)
(***************************************************************************)
n_threads(n_jobs) == IF n_jobs > 0 THEN n_jobs ELSE CpuCount + 1 + n_jobs

run_with_n_jobs(self, method) ==
    IF self.n_jobs = NoJobs THEN {}
    ELSE {[method |-> method, threads |-> n_threads(self.n_jobs)]}

\* Variant: _onedal_predict is not decorated.
OnlyFitNJobs == {"KMeans._onedal_fit"}

\* The methods of KMeans that carry the @run_with_n_jobs decorator.
KMeansNJobsMethods == {"KMeans._onedal_fit", "KMeans._onedal_predict"}

KMeansLog(self, method) ==
    IF method \in KMeansNJobsMethods THEN run_with_n_jobs(self, method) ELSE {}

\* What a callable did: the estimator as it left it, the exception it
\* raised ("ok" when it returned) and the log records it emitted.
Done(self, outcome, logs) == [self |-> self, outcome |-> outcome, logs |-> logs]

\* sklearn's KMeans._check_params_vs_input, run by both backends.
check_params_algorithm(self) ==
    IF self.algorithm \in {"auto", "full"} THEN "lloyd"
    ELSE IF self.algorithm = "elkan" /\ self.n_clusters = 1 THEN "lloyd"
    ELSE self.algorithm

KMeans_onedal_fit(self, X, sample_weight) ==
    LET logs == KMeansLog(self, "KMeans._onedal_fit")
        g == self.cluster_centers_ + 1
    IN  IF sample_weight # None THEN Done(self, "AssertionError", logs)
        ELSE IF X.kind = "scalar" THEN Done(self, "ValueError", logs)
        ELSE IF X.kind = "sparse" THEN Done(self, "TypeError", logs)
        ELSE IF X.n < self.n_clusters THEN Done(self, "ValueError", logs)
        ELSE Done([self EXCEPT !._algorithm = check_params_algorithm(self),
                               !._onedal_estimator = g,
                               !.cluster_centers_ = g],
                  "ok", logs)

sklearn_KMeans_fit(self, X, sample_weight) ==
    LET g == self.cluster_centers_ + 1
    IN  IF X.kind = "scalar" THEN Done(self, "ValueError", {})
        ELSE IF X.n < self.n_clusters THEN Done(self, "ValueError", {})
        ELSE IF self.init_sparse THEN Done(self, "TypeError", {})
        ELSE Done([self EXCEPT !._algorithm = check_params_algorithm(self),
                               !.cluster_centers_ = g],
                  "ok", {})

\* With cluster centers None the backend estimator cannot predict.
KMeans_onedal_predict(self, X) ==
    LET logs == KMeansLog(self, "KMeans._onedal_predict")
        est == IF self._onedal_estimator = NoEstimator
               THEN [self EXCEPT !._onedal_estimator = self.cluster_centers_]
               ELSE self
    IN  IF X.kind = "scalar" THEN Done(self, "ValueError", logs)
        ELSE IF X.kind = "sparse" THEN Done(self, "TypeError", logs)
        ELSE IF est._onedal_estimator = 0 THEN Done(est, "BackendError", logs)
        ELSE Done(est, "ok", logs)

sklearn_KMeans_predict(self, X) ==
    IF ~KMeansFitted(self) THEN Done(self, "NotFittedError", {})
    ELSE IF X.kind = "scalar" THEN Done(self, "ValueError", {})
    ELSE Done(self, "ok", {})

(***************************************************************************)
(* PCA: hyperparameters and instance attributes.                           *)
(***************************************************************************)
SmallDim == 2         \* a dimension of a small input
LargeDim == 600       \* a dimension above the 'auto' threshold
AutoFullMax == 500    \* max(X.shape) <= 500 resolves 'auto' to 'full'

PCADims == {SmallDim, AutoFullMax, LargeDim}

PCAInputs == [kind : {"dense", "sparse"}, rows : PCADims, cols : PCADims]

SvdSolvers == {"auto", "full", "cov", "arpack", "randomized", "bogus"}

\* n_components: None, 'mle', an integer >= 1, or a fraction in (0, 1).
NComponents ==
    {[kind |-> "None", v |-> 0], [kind |-> "mle", v |-> 0], [kind |-> "frac", v |-> 0]}
        \cup [kind : {"int"}, v : (1..SmallDim) \cup {AutoFullMax}]

Min(a, b) == IF a < b THEN a ELSE b

Max(a, b) == IF a < b THEN b ELSE a

\* components_ = 0: nothing fitted; g > 0: the model of the g-th completed
\* fit.  _onedal_estimator as for KMeans; _fit_svd_solver is Absent until
\* the first _fit.
PCAInit(n_components, svd_solver) ==
    [n_components |-> n_components,
     svd_solver |-> svd_solver,
     _fit_svd_solver |-> Absent,
     _onedal_estimator |-> NoEstimator,
     components_ |-> 0]

PCAFitted(self) == self.components_ # 0

\* pca.py lines 79-85: the n_components the solver choice looks at.
effective_n_components(self, X) ==
    IF self.n_components.kind = "None"
    THEN [kind |-> "int",
          v |-> IF self.svd_solver # "arpack" THEN Min(X.rows, X.cols)
                ELSE Min(X.rows, X.cols) - 1]
    ELSE self.n_components

\* Variant: an input of exactly 500 rows or columns is not taken as small.
ResolveBelowLimit(self, X) ==
    LET n == effective_n_components(self, X)
    IN  IF self.svd_solver # "auto" THEN self.svd_solver
        ELSE IF Max(X.rows, X.cols) < AutoFullMax \/ n.kind = "mle" THEN "full"
        ELSE IF n.kind = "int" /\ n.v >= 1 /\ 5 * n.v < 4 * Min(X.rows, X.cols)
             THEN "randomized"
        ELSE "full"

\* pca.py lines 88-98.  n < 0.8 * m is 5 * n < 4 * m; a fraction in (0, 1)
\* fails n_components >= 1.
resolve_svd_solver(self, X) ==
    LET n == effective_n_components(self, X)
    IN  IF self.svd_solver # "auto" THEN self.svd_solver
        ELSE IF Max(X.rows, X.cols) <= AutoFullMax \/ n.kind = "mle" THEN "full"
        ELSE IF n.kind = "int" /\ n.v >= 1 /\ 5 * n.v < 4 * Min(X.rows, X.cols)
             THEN "randomized"
        ELSE "full"

PCA_onedal_gpu_supported(self, method_name) ==
    IF method_name = "decomposition.PCA.fit"
    THEN IF self._fit_svd_solver = Absent THEN Answer("AttributeError", self)
         ELSE Answer(IF self._fit_svd_solver = "cov" THEN "supported" ELSE "unsupported",
                     self)
    ELSE IF method_name = "decomposition.PCA.transform"
    THEN Answer(IF self._onedal_estimator # NoEstimator THEN "supported"
                ELSE "unsupported", self)
    ELSE Answer("RuntimeError", self)

\* Variant: an unknown method name is answered "unsupported".
CpuSupportedSilentDefault(self, method_name) ==
    IF method_name = "decomposition.PCA.fit"
    THEN IF self._fit_svd_solver = Absent THEN Answer("AttributeError", self)
         ELSE Answer(IF self._fit_svd_solver \in {"cov", "full"} THEN "supported"
                     ELSE "unsupported", self)
    ELSE IF method_name = "decomposition.PCA.transform"
    THEN Answer(IF self._onedal_estimator # NoEstimator THEN "supported"
                ELSE "unsupported", self)
    ELSE Answer("unsupported", self)

\* Variant: the host backend accepts only the 'full' solver.
CpuSupportedFullOnly(self, method_name) ==
    IF method_name = "decomposition.PCA.fit"
    THEN IF self._fit_svd_solver = Absent THEN Answer("AttributeError", self)
         ELSE Answer(IF self._fit_svd_solver \in {"full"} THEN "supported"
                     ELSE "unsupported", self)
    ELSE IF method_name = "decomposition.PCA.transform"
    THEN Answer(IF self._onedal_estimator # NoEstimator THEN "supported"
                ELSE "unsupported", self)
    ELSE Answer("RuntimeError", self)

PCA_onedal_cpu_supported(self, method_name) ==
    IF method_name = "decomposition.PCA.fit"
    THEN IF self._fit_svd_solver = Absent THEN Answer("AttributeError", self)
         ELSE Answer(IF self._fit_svd_solver \in {"cov", "full"} THEN "supported"
                     ELSE "unsupported", self)
    ELSE IF method_name = "decomposition.PCA.transform"
    THEN Answer(IF self._onedal_estimator # NoEstimator THEN "supported"
                ELSE "unsupported", self)
    ELSE Answer("RuntimeError", self)

\* The backend method _onedal_fit selects, or its ValueError.
onedal_method(self) ==
    IF self.svd_solver = "full" THEN "svd"
    ELSE IF self.svd_solver = "cov" THEN "cov"
    ELSE "ValueError"

\* Variant: a backend estimator kept from an earlier fit is not replaced.
OnedalFitKeepsEstimator(self, X) ==
    LET g == self.components_ + 1
    IN  IF onedal_method(self) = "ValueError" THEN Done(self, "ValueError", {})
        ELSE Done([self EXCEPT !._onedal_estimator =
                                   IF @ = NoEstimator THEN g ELSE @,
                               !.components_ = g],
                  "ok", {})

PCA_onedal_fit(self, X) ==
    LET g == self.components_ + 1
    IN  IF onedal_method(self) = "ValueError" THEN Done(self, "ValueError", {})
        ELSE Done([self EXCEPT !._onedal_estimator = g,
                               !.components_ = g],
                  "ok", {})

\* dispatch calls sklearn_PCA._fit_full(self, X); the reference method is
\* _fit_full(self, X, n_components).
sklearn_PCA_fit_full(self, X) == Done(self, "TypeError", {})

PCA_onedal_predict(self, X) ==
    IF self._onedal_estimator = NoEstimator THEN Done(self, "AttributeError", {})
    ELSE Done(self, "ok", {})

sklearn_PCA_transform(self, X) == Done(self, "ok", {})

(***************************************************************************)
(* sklearnex._device_offload.dispatch.  The backends are queried in the    *)
(* fixed order accelerated-device, accelerated-host, reference; the first  *)
(* whose capability predicate passes is executed, once.  An exception of   *)
(* a predicate propagates to the caller.                                   *)
(***************************************************************************)
\* obj._onedal_gpu_supported / obj._onedal_cpu_supported, looked up on the
\* class of obj.
onedal_supported(c, target, obj, method_name, X, sample_weight) ==
    IF c = "KMeans"
    THEN IF target = "gpu"
         THEN KMeans_onedal_gpu_supported(obj, method_name, X, sample_weight)
         ELSE KMeans_onedal_cpu_supported(obj, method_name, X, sample_weight)
    ELSE IF target = "gpu"
         THEN PCA_onedal_gpu_supported(obj, method_name)
         ELSE PCA_onedal_cpu_supported(obj, method_name)

Backend(backend, queried, self) ==
    [backend |-> backend, queried |-> queried, self |-> self]

get_backend(c, obj, target, method_name, X, sample_weight) ==
    LET first == onedal_supported(c, target, obj, method_name, X, sample_weight)
        second == onedal_supported(c, "cpu", first.self, method_name, X, sample_weight)
    IN  IF first.result = "supported"
        THEN Backend("onedal", <<first.result>>, first.self)
        ELSE IF ~Returned(first.result)
        THEN Backend("raise", <<first.result>>, first.self)
        ELSE IF target = "cpu"
        THEN Backend("sklearn", <<first.result>>, first.self)
        ELSE IF second.result = "supported"
        THEN Backend("onedal", <<first.result, second.result>>, second.self)
        ELSE IF ~Returned(second.result)
        THEN Backend("raise", <<first.result, second.result>>, second.self)
        ELSE Backend("sklearn", <<first.result, second.result>>, second.self)

\* The callables the call sites hand to dispatch.
Invoke(callable, self, X, sample_weight) ==
    CASE callable = "KMeans._onedal_fit" -> KMeans_onedal_fit(self, X, sample_weight)
      [] callable = "sklearn_KMeans.fit" -> sklearn_KMeans_fit(self, X, sample_weight)
      [] callable = "KMeans._onedal_predict" -> KMeans_onedal_predict(self, X)
      [] callable = "sklearn_KMeans.predict" -> sklearn_KMeans_predict(self, X)
      [] callable = "PCA._onedal_fit" -> PCA_onedal_fit(self, X)
      [] callable = "sklearn_PCA._fit_full" -> sklearn_PCA_fit_full(self, X)
      [] callable = "PCA._onedal_predict" -> PCA_onedal_predict(self, X)
      [] callable = "sklearn_PCA.transform" -> sklearn_PCA_transform(self, X)

\* What a call of a public method did.
Call(self, queried, backend, ran, outcome, logs) ==
    [self |-> self, queried |-> queried, backend |-> backend, ran |-> ran,
     outcome |-> outcome, logs |-> logs, offered |-> {},
     n_components |-> [kind |-> "None", v |-> 0]]

\* The same, with the backends the call site offered to dispatch.
Offered(call, branches) == [call EXCEPT !.offered = DOMAIN branches]

dispatch(c, obj, target, method_name, branches, X, sample_weight) ==
    LET b == get_backend(c, obj, target, method_name, X, sample_weight)
        r == Invoke(branches[b.backend], b.self, X, sample_weight)
    IN  Offered(IF b.backend = "raise"
                THEN Call(b.self, b.queried, b.backend, <<>>,
                          b.queried[Len(b.queried)], {})
                ELSE IF b.backend \notin DOMAIN branches
                THEN Call(b.self, b.queried, b.backend, <<>>, "KeyError", {})
                ELSE Call(r.self, b.queried, b.backend, <<branches[b.backend]>>,
                          r.outcome, r.logs),
                branches)

(***************************************************************************)
(* The public methods.                                                     *)
(***************************************************************************)
\* Variant: the two callables of KMeans.fit are handed over swapped.
KMeansFitBranchesSwapped ==
    [onedal |-> "sklearn_KMeans.fit", sklearn |-> "KMeans._onedal_fit"]

KMeansFitBranches ==
    [onedal |-> "KMeans._onedal_fit", sklearn |-> "sklearn_KMeans.fit"]

KMeansPredictBranches ==
    [onedal |-> "KMeans._onedal_predict", sklearn |-> "sklearn_KMeans.predict"]

PCAFitFullBranches ==
    [onedal |-> "PCA._onedal_fit", sklearn |-> "sklearn_PCA._fit_full"]

PCAFitCovBranches == [onedal |-> "PCA._onedal_fit"]

PCATransformBranches ==
    [onedal |-> "PCA._onedal_predict", sklearn |-> "sklearn_PCA.transform"]

\* fit and predict first run _check_feature_names and _validate_params,
\* which touch none of the attributes followed here.
KMeans_fit(self, X, sample_weight, target) ==
    dispatch("KMeans", self, target, "fit", KMeansFitBranches, X, sample_weight)

KMeans_predict(self, X, target) ==
    dispatch("KMeans", self, target, "predict", KMeansPredictBranches, X, None)

\* The same, with the value of _fit's local n_components.
WithNComponents(call, n) == [call EXCEPT !.n_components = n]

\* Variant: the solver is resolved and stored before sparse input is refused.
PCAFitResolveFirst(self, X, target) ==
    LET solver == resolve_svd_solver(self, X)
        resolved == [self EXCEPT !._fit_svd_solver = solver]
    IN  IF issparse(X) THEN Call(resolved, <<>>, "none", <<>>, "TypeError", {})
        ELSE WithNComponents(
               IF solver = "full"
               THEN dispatch("PCA", resolved, target, "decomposition.PCA.fit",
                             PCAFitFullBranches, X, None)
               ELSE IF solver = "cov"
               THEN dispatch("PCA", resolved, target, "decomposition.PCA.fit",
                             PCAFitCovBranches, X, None)
               ELSE IF solver \in {"arpack", "randomized"}
               THEN Call(resolved, <<>>, "none", <<>>, "TypeError", {})
               ELSE Call(resolved, <<>>, "none", <<>>, "ValueError", {}),
               effective_n_components(self, X))

\* sklearn_PCA._fit_truncated(X, n_components, solver) is called without
\* self: the call raises TypeError before the reference code runs.
PCA_fit(self, X, target) ==
    LET solver == resolve_svd_solver(self, X)
        resolved == [self EXCEPT !._fit_svd_solver = solver]
    IN  IF issparse(X) THEN Call(self, <<>>, "none", <<>>, "TypeError", {})
        ELSE WithNComponents(
               IF solver = "full"
               THEN dispatch("PCA", resolved, target, "decomposition.PCA.fit",
                             PCAFitFullBranches, X, None)
               ELSE IF solver = "cov"
               THEN dispatch("PCA", resolved, target, "decomposition.PCA.fit",
                             PCAFitCovBranches, X, None)
               ELSE IF solver \in {"arpack", "randomized"}
               THEN Call(resolved, <<>>, "none", <<>>, "TypeError", {})
               ELSE Call(resolved, <<>>, "none", <<>>, "ValueError", {}),
               effective_n_components(self, X))

\* check_is_fitted, then _check_array (which refuses sparse input), then
\* dispatch.
PCA_transform(self, X, target) ==
    IF ~PCAFitted(self) THEN Call(self, <<>>, "none", <<>>, "NotFittedError", {})
    ELSE IF issparse(X) THEN Call(self, <<>>, "none", <<>>, "TypeError", {})
    ELSE dispatch("PCA", self, target, "decomposition.PCA.transform",
                  PCATransformBranches, X, None)

(***************************************************************************)
(* scripts/version.py: get_onedal_version reads the version macros from    *)
(* library_version_info.h.  A line of the header is a sequence of pieces   *)
(* of text: the keyword, the fragments the macro names are made of, and    *)
(* single characters.  No piece is the beginning of another piece that can *)
(* stand at the same place, so a text is found in, or begins, a line       *)
(* exactly when its pieces are found in, or begin, the line's pieces.      *)
(***************************************************************************)
MaxLines == 5         \* lines of a header file

Digits == {"0", "1", "2"}

MacroNames == {"major", "minor", "major_binary", "minor_binary"}

\* The name of the macro assigned to each local of get_onedal_version.
Macro(name) ==
    CASE name = "major" -> <<"__INTEL_DAAL", "__">>
      [] name = "minor" -> <<"__INTEL_DAAL", "_MINOR", "__">>
      [] name = "major_binary" -> <<"__INTEL_DAAL", "_MAJOR", "_BINARY", "__">>
      [] name = "minor_binary" -> <<"__INTEL_DAAL", "_MINOR", "_BINARY", "__">>

\* '#define <macro>', the text of the `in` test.
Needle(name) == <<"#define", " ">> \o Macro(name)

\* A line of the header: indentation, '#define <macro>', a blank or none,
\* and the rest of the line.
Line(indent, name, blank, rest) ==
    (IF indent THEN <<" ">> ELSE <<>>) \o Needle(name)
        \o (IF blank THEN <<" ">> ELSE <<>>) \o rest

\* Defines of the four macros with two values each, an indented define and
\* a define with no blank before the number.
Lines ==
    {Line(FALSE, m, TRUE, v) : m \in MacroNames, v \in {<<"2">>, <<"1", "0">>}}
        \cup {Line(TRUE, "major", TRUE, <<"2">>),
              Line(FALSE, "minor_binary", FALSE, <<"2">>)}

\* The header files of n lines.
Headers(n) == [1..n -> Lines]

\* needle in elem
contains(elem, needle) ==
    \E i \in 1..(Len(elem) - Len(needle) + 1) :
        SubSeq(elem, i, i + Len(needle) - 1) = needle

RECURSIVE DigitRun(_)
\* (\d+): the longest run of digits at the beginning of s.
DigitRun(s) ==
    IF s = <<>> \/ Head(s) \notin Digits THEN <<>>
    ELSE <<Head(s)>> \o DigitRun(Tail(s))

\* Variant: re.search, the pattern is looked for anywhere in the line.
ReSearch(name, elem) ==
    LET pattern == Needle(name) \o <<" ">>
        at == {i \in 1..(Len(elem) - Len(pattern)) :
                 /\ SubSeq(elem, i, i + Len(pattern) - 1) = pattern
                 /\ elem[i + Len(pattern)] \in Digits}
    IN  IF at = {} THEN <<>>
        ELSE LET i == CHOOSE j \in at : \A k \in at : j <= k
             IN  DigitRun(SubSeq(elem, i + Len(pattern), Len(elem)))

\* re.match(r'#define <macro> (\d+)', elem).group(1), or <<>> for no match:
\* the pattern is anchored at the beginning of the line.
re_match(name, elem) ==
    LET pattern == Needle(name) \o <<" ">>
    IN  IF /\ Len(elem) > Len(pattern)
           /\ SubSeq(elem, 1, Len(pattern)) = pattern
           /\ elem[Len(pattern) + 1] \in Digits
        THEN DigitRun(SubSeq(elem, Len(pattern) + 1, Len(elem)))
        ELSE <<>>

DigitValue(d) == CASE d = "0" -> 0 [] d = "1" -> 1 [] d = "2" -> 2

RECURSIVE int(_)
\* int(s) for a nonempty string of digits; int("") raises ValueError.
int(s) ==
    IF s = <<>> THEN 0
    ELSE 10 * int(SubSeq(s, 1, Len(s) - 1)) + DigitValue(s[Len(s)])

\* One of the four tests of the loop body: the local keeps its value unless
\* the line holds the needle and the pattern matches.
Assigned(old, name, elem) ==
    IF contains(elem, Needle(name)) /\ re_match(name, elem) # <<>>
    THEN re_match(name, elem)
    ELSE old

RECURSIVE ScanHeader(_, _)
\* The loop over the lines of the header, from the locals in acc.
ScanHeader(acc, header) ==
    IF header = <<>> THEN acc
    ELSE ScanHeader([name \in MacroNames |-> Assigned(acc[name], name, Head(header))],
                    Tail(header))

\* The state of a run of the script on a header: not called yet.
NotCalled(header) ==
    [header |-> header, outcome |-> "none", version |-> 0, binary_version |-> <<0, 0>>]

get_onedal_version(header) ==
    LET found == ScanHeader([name \in MacroNames |-> <<>>], header)
    IN  IF \E name \in MacroNames : found[name] = <<>>
        THEN [header |-> header, outcome |-> "ValueError",
              version |-> 0, binary_version |-> <<0, 0>>]
        ELSE [header |-> header, outcome |-> "ok",
              version |-> int(found["major"]) * 10000 + int(found["minor"]) * 100,
              binary_version |-> <<int(found["major_binary"]), int(found["minor_binary"])>>]

(***************************************************************************)
(* The state machine.                                                      *)
(***************************************************************************)
NoInput == [kind |-> "none"]

Record(call, method, X, sample_weight, r, pre) ==
    [call |-> call, method |-> method, X |-> X, sample_weight |-> sample_weight,
     queried |-> r.queried, backend |-> r.backend, offered |-> r.offered,
     ran |-> r.ran, outcome |-> r.outcome, logs |-> r.logs, pre |-> pre,
     n_components |-> r.n_components]

NoCall(call) ==
    Record(call, "none", NoInput, None, Call(0, <<>>, "none", <<>>, "ok", {}), 0)

\* The estimator as its constructor leaves it, for each choice of the
\* constructor's arguments, and the target device of the process.
Constructed(n_jobs_values) ==
    /\ cls \in {"KMeans", "PCA"}
    /\ device \in Devices
    /\ km \in {KMeansInit(n, s, a, j) :
                 n \in 1..MaxSamples, s \in BOOLEAN, a \in Algorithms, j \in n_jobs_values}
    /\ pca \in {PCAInit(n, s) : n \in NComponents, s \in SvdSolvers}
    /\ cls = "KMeans" => pca = PCAInit([kind |-> "None", v |-> 0], "auto")
    /\ cls = "PCA" => km = KMeansInit(1, FALSE, "lloyd", NoJobs)
    /\ last = NoCall("init")
    /\ ver = NotCalled(<<>>)

Init == Constructed({NoJobs})

\* set_params on a hyperparameter.
KMeansSetParams ==
    /\ cls = "KMeans"
    /\ \/ \E n \in 1..MaxSamples : km' = [km EXCEPT !.n_clusters = n]
       \/ \E a \in Algorithms : km' = [km EXCEPT !.algorithm = a]
       \/ \E s \in BOOLEAN : km' = [km EXCEPT !.init_sparse = s]
    /\ km' # km
    /\ last' = NoCall("set_params")
    /\ UNCHANGED <<cls, device, pca, ver>>

KMeansFit ==
    /\ cls = "KMeans"
    /\ km.cluster_centers_ < MaxFits
    /\ \E X \in KMeansInputs, sample_weight \in SampleWeights :
         LET r == KMeans_fit(km, X, sample_weight, device)
         IN  /\ km' = r.self
             /\ last' = Record("KMeans.fit", "fit", X, sample_weight, r, km)
    /\ UNCHANGED <<cls, device, pca, ver>>

KMeansPredict ==
    /\ cls = "KMeans"
    /\ \E X \in KMeansInputs :
         LET r == KMeans_predict(km, X, device)
         IN  /\ km' = r.self
             /\ last' = Record("KMeans.predict", "predict", X, None, r, km)
    /\ UNCHANGED <<cls, device, pca, ver>>

\* A direct call of a capability predicate entry point.
KMeansMethodNames == {"fit", "predict", "transform"}

KMeansEntryPoints ==
    {"KMeans._onedal_supported", "KMeans._onedal_gpu_supported",
     "KMeans._onedal_cpu_supported"}

KMeansEntry(entry, self, method_name, X, sample_weight) ==
    CASE entry = "KMeans._onedal_supported" ->
           KMeans_onedal_supported(self, method_name, X, sample_weight)
      [] entry = "KMeans._onedal_gpu_supported" ->
           KMeans_onedal_gpu_supported(self, method_name, X, sample_weight)
      [] entry = "KMeans._onedal_cpu_supported" ->
           KMeans_onedal_cpu_supported(self, method_name, X, sample_weight)

Probe(entry, method_name, X, sample_weight, a, pre) ==
    Record(entry, method_name, X, sample_weight,
           Call(a.self, <<a.result>>, "none", <<>>,
                IF Returned(a.result) THEN "ok" ELSE a.result, {}),
           pre)

KMeansPredicate ==
    /\ cls = "KMeans"
    /\ \E entry \in KMeansEntryPoints, method_name \in KMeansMethodNames,
          X \in KMeansInputs, sample_weight \in SampleWeights :
         LET a == KMeansEntry(entry, km, method_name, X, sample_weight)
         IN  /\ method_name # "fit" => sample_weight = None
             /\ km' = a.self
             /\ last' = Probe(entry, method_name, X, sample_weight, a, km)
    /\ UNCHANGED <<cls, device, pca, ver>>

PCASetParams ==
    /\ cls = "PCA"
    /\ \/ \E n \in NComponents : pca' = [pca EXCEPT !.n_components = n]
       \/ \E s \in SvdSolvers : pca' = [pca EXCEPT !.svd_solver = s]
    /\ pca' # pca
    /\ last' = NoCall("set_params")
    /\ UNCHANGED <<cls, device, km, ver>>

PCAFit ==
    /\ cls = "PCA"
    /\ pca.components_ < MaxFits
    /\ \E X \in PCAInputs :
         LET r == PCA_fit(pca, X, device)
         IN  /\ pca' = r.self
             /\ last' = Record("PCA.fit", "decomposition.PCA.fit", X, None, r, pca)
    /\ UNCHANGED <<cls, device, km, ver>>

PCATransform ==
    /\ cls = "PCA"
    /\ \E X \in PCAInputs :
         LET r == PCA_transform(pca, X, device)
         IN  /\ pca' = r.self
             /\ last' = Record("PCA.transform", "decomposition.PCA.transform", X, None,
                               r, pca)
    /\ UNCHANGED <<cls, device, km, ver>>

PCAMethodNames == {"decomposition.PCA.fit", "decomposition.PCA.transform", "fit"}

PCAEntryPoints == {"PCA._onedal_gpu_supported", "PCA._onedal_cpu_supported"}

PCAEntry(entry, self, method_name) ==
    CASE entry = "PCA._onedal_gpu_supported" -> PCA_onedal_gpu_supported(self, method_name)
      [] entry = "PCA._onedal_cpu_supported" -> PCA_onedal_cpu_supported(self, method_name)

PCAPredicate ==
    /\ cls = "PCA"
    /\ \E entry \in PCAEntryPoints, method_name \in PCAMethodNames, X \in PCAInputs :
         LET a == PCAEntry(entry, pca, method_name)
         IN  /\ X.rows = SmallDim /\ X.cols = SmallDim
             /\ pca' = a.self
             /\ last' = Probe(entry, method_name, X, None, a, pca)
    /\ UNCHANGED <<cls, device, km, ver>>

\* The public methods of one estimator, between changes of its parameters.
Next ==
    \/ KMeansSetParams
    \/ KMeansFit
    \/ KMeansPredict
    \/ PCASetParams
    \/ PCAFit
    \/ PCATransform

Spec == Init /\ [][Next]_vars

\* Direct calls of the capability predicates, on an estimator that may have
\* been fitted before.
NextPredicates ==
    \/ KMeansSetParams
    \/ KMeansPredicate
    \/ PCASetParams
    \/ PCAFit
    \/ PCAPredicate

SpecPredicates == Init /\ [][NextPredicates]_vars

\* KMeans constructed with n_jobs given.
InitNJobs == Constructed(NJobsValues \ {NoJobs}) /\ cls = "KMeans"

NextNJobs ==
    \/ KMeansSetParams
    \/ KMeansFit
    \/ KMeansPredict

SpecNJobs == InitNJobs /\ [][NextNJobs]_vars

\* The version script run on a header file.
InitVersion ==
    /\ cls = "get_onedal_version"
    /\ device = "cpu"
    /\ km = KMeansInit(1, FALSE, "lloyd", NoJobs)
    /\ pca = PCAInit([kind |-> "None", v |-> 0], "auto")
    /\ last = NoCall("init")
    /\ \E n \in 0..MaxLines : \E header \in Headers(n) : ver = NotCalled(header)

GetOnedalVersion ==
    /\ cls = "get_onedal_version"
    /\ ver.outcome = "none"
    /\ ver' = get_onedal_version(ver.header)
    /\ UNCHANGED <<cls, device, km, pca, last>>

NextVersion == GetOnedalVersion

SpecVersion == InitVersion /\ [][NextVersion]_vars

(***************************************************************************)
(* Properties.                                                             *)
(***************************************************************************)
DispatchedCalls == {"KMeans.fit", "KMeans.predict", "PCA.fit", "PCA.transform"}

\* The last step was a public method that reached dispatch.
Dispatched == last.call \in DispatchedCalls /\ Len(last.queried) > 0

AcceleratedOf(call) ==
    CASE call = "KMeans.fit" -> "KMeans._onedal_fit"
      [] call = "KMeans.predict" -> "KMeans._onedal_predict"
      [] call = "PCA.fit" -> "PCA._onedal_fit"
      [] call = "PCA.transform" -> "PCA._onedal_predict"

ReferenceOf(call) ==
    CASE call = "KMeans.fit" -> "sklearn_KMeans.fit"
      [] call = "KMeans.predict" -> "sklearn_KMeans.predict"
      [] call = "PCA.fit" -> "sklearn_PCA._fit_full"
      [] call = "PCA.transform" -> "sklearn_PCA.transform"

SomePredicatePassed == \E i \in 1..Len(last.queried) : last.queried[i] = "supported"

NoPredicatePassed == \A i \in 1..Len(last.queried) : last.queried[i] = "unsupported"

\* C1: in a dispatched call (KMeans.fit, KMeans.predict, PCA.fit resolved to
\* 'full', PCA.transform), if a capability predicate of an accelerated
\* backend returned true the accelerated callable is invoked exactly once
\* and the reference callable is not; if every accelerated predicate
\* returned false the reference callable is invoked exactly once and the
\* accelerated one is not; never both.
C1_ExactlyOneBackend ==
    (Dispatched /\ (last.call = "PCA.fit" => pca._fit_svd_solver = "full")) =>
        /\ SomePredicatePassed => last.ran = <<AcceleratedOf(last.call)>>
        /\ NoPredicatePassed => last.ran = <<ReferenceOf(last.call)>>
        /\ Len(last.ran) <= 1

C1_Witness ==
    /\ last.call = "KMeans.fit"
    /\ last.queried = <<"unsupported", "unsupported">>
    /\ last.ran = <<"sklearn_KMeans.fit">>

\* A direct call of a KMeans predicate entry point for method "fit".
FitPredicateCalled == last.call \in KMeansEntryPoints /\ last.method = "fit"

\* C2: the KMeans fit predicate answers "supported" if and only if the
\* algorithm is 'auto', 'full' or 'lloyd', init is not sparse, n_clusters is
\* strictly less than the number of samples of X, sample_weight is None and
\* X is not sparse.
C2_FitSupportedIffAllFive ==
    FitPredicateCalled =>
        (last.queried[1] = "supported" <=>
            /\ last.pre.algorithm \in {"auto", "full", "lloyd"}
            /\ ~last.pre.init_sparse
            /\ last.X.kind # "scalar" /\ last.pre.n_clusters < last.X.n
            /\ last.sample_weight = None
            /\ last.X.kind # "sparse")

C2_Witness ==
    /\ FitPredicateCalled
    /\ last.pre.algorithm = "lloyd" /\ last.X.kind = "dense"
    /\ last.sample_weight = None /\ last.pre.n_clusters < last.X.n
    /\ last.queried[1] = "supported"

PredicateCalled == last.call \in KMeansEntryPoints \cup PCAEntryPoints

UnknownMethod ==
    \/ last.call \in KMeansEntryPoints /\ last.method \notin {"fit", "predict"}
    \/ /\ last.call \in PCAEntryPoints
       /\ last.method \notin {"decomposition.PCA.fit", "decomposition.PCA.transform"}

\* C3: a capability predicate entry point called with a method name it does
\* not recognize raises RuntimeError; it gives no supported/unsupported
\* answer.
C3_UnknownMethodRaises ==
    (PredicateCalled /\ UnknownMethod) =>
        /\ last.outcome = "RuntimeError"
        /\ ~Returned(last.queried[1])

C3_Witness ==
    /\ last.call = "PCA._onedal_cpu_supported"
    /\ last.method = "fit"
    /\ last.outcome = "RuntimeError"

\* C4: evaluating a capability predicate leaves the estimator as it was:
\* no attribute is changed and none is added.
C4_PredicateSideEffectFree ==
    (PredicateCalled /\ Returned(last.queried[1])) =>
        IF last.call \in KMeansEntryPoints THEN km = last.pre ELSE pca = last.pre

\* The estimator constructed anew with the hyperparameters of self.
FreshKMeans(self) ==
    KMeansInit(self.n_clusters, self.init_sparse, self.algorithm, self.n_jobs)

FreshPCA(self) == PCAInit(self.n_components, self.svd_solver)

SameDecision(a, b) == a.queried = b.queried /\ a.backend = b.backend

\* C5: the dispatch decision of a call is the one the same call gets on an
\* estimator newly constructed with the same hyperparameters: the answers
\* of the predicates and the backend chosen depend on the hyperparameters,
\* the input and the device alone, whatever calls and parameter changes came
\* before.  Every PCA.transform that reaches dispatch gets the same
\* decision.
C5_DecisionDeterministic ==
    /\ last.call = "KMeans.fit" =>
         SameDecision(last, KMeans_fit(FreshKMeans(last.pre), last.X,
                                       last.sample_weight, device))
    /\ last.call = "KMeans.predict" =>
         SameDecision(last, KMeans_predict(FreshKMeans(last.pre), last.X, device))
    /\ last.call = "PCA.fit" =>
         SameDecision(last, PCA_fit(FreshPCA(last.pre), last.X, device))
    /\ (last.call = "PCA.transform" /\ Dispatched) =>
         last.queried = <<"supported">> /\ last.backend = "onedal"

C5_Witness ==
    /\ last.call = "PCA.fit"
    /\ Dispatched
    /\ last.pre._onedal_estimator # NoEstimator
    /\ last.pre._fit_svd_solver \notin {Absent, pca._fit_svd_solver}

\* C6 as stated: every call site of dispatch offers the reference callable
\* as the last fallback.
C6_ReferenceOfferedEverywhere == Dispatched => "sklearn" \in last.offered

\* C6 as amended: whenever no accelerated predicate passes the reference
\* callable is run; the one call site that offers no reference callable is
\* PCA._fit with the solver resolved to 'cov', and there an accelerated
\* predicate passes in every call.
C6_ReferenceIsLastFallback ==
    Dispatched =>
        /\ NoPredicatePassed => last.ran = <<ReferenceOf(last.call)>>
        /\ "sklearn" \notin last.offered =>
             /\ last.call = "PCA.fit"
             /\ pca._fit_svd_solver = "cov"
             /\ SomePredicatePassed

C6_Witness ==
    /\ last.call = "KMeans.predict"
    /\ NoPredicatePassed
    /\ last.ran = <<"sklearn_KMeans.predict">>

\* C7: when the PCA capability predicate accepts a fit call, the accelerated
\* _onedal_fit selects a backend method and raises no "Unknown method"
\* ValueError.
C7_AcceptedFitSelectsMethod ==
    (last.call = "PCA.fit" /\ SomePredicatePassed) => last.outcome # "ValueError"

\* C8: in KMeans.fit and KMeans.predict every capability predicate that
\* dispatch queries returns an answer; none raises.
C8_PredicateNeverRaises ==
    last.call \in {"KMeans.fit", "KMeans.predict"} =>
        \A i \in 1..Len(last.queried) : Returned(last.queried[i])

\* C9: KMeans.predict (here on a valid dense input) on an estimator on which
\* no fit has completed raises NotFittedError and does not run the
\* accelerated backend.
C9_PredictUnfittedRaisesNotFitted ==
    (last.call = "KMeans.predict" /\ ~KMeansFitted(last.pre) /\ last.X.kind = "dense") =>
        /\ last.outcome = "NotFittedError"
        /\ last.ran # <<"KMeans._onedal_predict">>

\* test_n_jobs_support.check_n_jobs_entry_in_logs: a record names the
\* method when the method's name is part of the record's text.
FunctionName(call) == IF call = "KMeans.fit" THEN "fit" ELSE "predict"

NamedIn(function_name, method) ==
    \/ function_name = "fit" /\ method = "KMeans._onedal_fit"
    \/ function_name = "predict" /\ method = "KMeans._onedal_predict"

expected_n_jobs(n_jobs) == IF n_jobs > 0 THEN n_jobs ELSE CpuCount + 1 + n_jobs

HasNJobsRecord ==
    \E rec \in last.logs :
        /\ NamedIn(FunctionName(last.call), rec.method)
        /\ rec.threads = expected_n_jobs(km.n_jobs)

NJobsCall == last.call \in {"KMeans.fit", "KMeans.predict"}

FitResolved == last.call = "PCA.fit" /\ last.X.kind = "dense"

MinShape == Min(last.X.rows, last.X.cols)

MaxShape == Max(last.X.rows, last.X.cols)

\* n_components as the rule for 'auto' reads it: min(X.shape) when the
\* parameter is None.
AutoNComponents ==
    IF last.pre.n_components.kind = "None" THEN [kind |-> "int", v |-> MinShape]
    ELSE last.pre.n_components

\* C11: PCA._fit resolves svd_solver = 'auto' to 'full' if max(X.shape) <=
\* 500 or n_components == 'mle', otherwise to 'randomized' if 1 <=
\* n_components < 0.8 * min(X.shape), otherwise to 'full'; any other
\* svd_solver is taken unchanged; with n_components None and svd_solver
\* 'arpack' the effective n_components is min(X.shape) - 1.
C11_SolverResolution ==
    FitResolved =>
        /\ last.pre.svd_solver = "auto" =>
             pca._fit_svd_solver =
                 IF MaxShape <= 500 \/ AutoNComponents.kind = "mle" THEN "full"
                 ELSE IF /\ AutoNComponents.kind = "int"
                         /\ 1 <= AutoNComponents.v
                         /\ 10 * AutoNComponents.v < 8 * MinShape
                      THEN "randomized"
                 ELSE "full"
        /\ last.pre.svd_solver # "auto" => pca._fit_svd_solver = last.pre.svd_solver
        /\ (last.pre.n_components.kind = "None" /\ last.pre.svd_solver = "arpack") =>
             last.n_components = [kind |-> "int", v |-> MinShape - 1]

C11_Witness ==
    /\ FitResolved
    /\ last.pre.svd_solver = "auto"
    /\ last.pre._fit_svd_solver = "full"
    /\ pca._fit_svd_solver = "randomized"

\* No predicate was asked and no backend callable was run.
NothingDispatched ==
    last.queried = <<>> /\ last.backend = "none" /\ last.ran = <<>>

KnownSolvers == {"auto", "full", "cov", "arpack", "randomized"}

\* C12: PCA.fit on sparse input raises TypeError before any solver
\* resolution or dispatch: no backend is executed and no attribute of the
\* estimator (_fit_svd_solver and _onedal_estimator included) is created or
\* changed.  PCA.fit on other input with svd_solver outside 'auto', 'full',
\* 'cov', 'arpack', 'randomized' raises ValueError and executes no backend.
C12_RefusedBeforeDispatch ==
    last.call = "PCA.fit" =>
        /\ last.X.kind = "sparse" =>
             /\ last.outcome = "TypeError"
             /\ NothingDispatched
             /\ pca = last.pre
        /\ (last.X.kind = "dense" /\ last.pre.svd_solver \notin KnownSolvers) =>
             /\ last.outcome = "ValueError"
             /\ NothingDispatched
             /\ pca._onedal_estimator = last.pre._onedal_estimator
             /\ pca.components_ = last.pre.components_

C12_Witness ==
    /\ last.call = "PCA.fit"
    /\ last.X.kind = "sparse"
    /\ last.outcome = "TypeError"
    /\ PCAFitted(last.pre)
    /\ last.pre.svd_solver # last.pre._fit_svd_solver

\* The line begins with '#define <macro> ' followed by a digit.
DefinesNumber(elem, name) ==
    LET prefix == <<"#define", " ">> \o Macro(name) \o <<" ">>
    IN  /\ Len(elem) > Len(prefix)
        /\ \A i \in 1..Len(prefix) : elem[i] = prefix[i]
        /\ elem[Len(prefix) + 1] \in Digits

\* The lines of the header that define a number for the macro.
Defining(name) == {i \in 1..Len(ver.header) : DefinesNumber(ver.header[i], name)}

\* The decimal value of the digits that follow '#define <macro> ' in the
\* last such line: the sum of digit * 10^place.
LastDefined(name) ==
    LET elem == ver.header[CHOOSE i \in Defining(name) : \A j \in Defining(name) : j <= i]
        first == Len(Macro(name)) + 4
        stop == CHOOSE e \in first..Len(elem) :
                    /\ \A k \in first..e : elem[k] \in Digits
                    /\ e = Len(elem) \/ elem[e + 1] \notin Digits
        Pow10[k \in 0..(stop - first)] == IF k = 0 THEN 1 ELSE 10 * Pow10[k - 1]
        Sum[k \in first..stop] ==
            DigitValue(elem[k]) * Pow10[stop - k] + (IF k = stop THEN 0 ELSE Sum[k + 1])
    IN  Sum[first]

\* C13: get_onedal_version returns (major * 10000 + minor * 100,
\* (major_binary, minor_binary)), each the decimal value of the last line of
\* the header that starts with the '#define ' of its own macro followed by
\* digits; a define of one macro is never taken as the value of another; if
\* any of the four defines is absent the function raises an error.
C13_VersionFromLastDefines ==
    ver.outcome # "none" =>
        IF \A name \in MacroNames : Defining(name) # {}
        THEN /\ ver.outcome = "ok"
             /\ ver.version = LastDefined("major") * 10000 + LastDefined("minor") * 100
             /\ ver.binary_version =
                    <<LastDefined("major_binary"), LastDefined("minor_binary")>>
        ELSE ver.outcome = "ValueError"

C13_Witness ==
    /\ ver.outcome = "ok"
    /\ ver.version = 100200
    /\ ver.binary_version = <<2, 10>>
    /\ \E i, j \in Defining("major") : i < j /\ ver.header[i] # ver.header[j]

\* C14: after any sequence of KMeans.fit calls, some accelerated and some
\* falling back, a predict served by the accelerated backend uses the
\* centers of the most recent fit: the _onedal_estimator that _onedal_predict
\* uses holds centers equal to the current cluster_centers_.
C14_PredictUsesCurrentCenters ==
    (/\ last.call = "KMeans.predict"
     /\ last.ran = <<"KMeans._onedal_predict">>
     /\ last.outcome = "ok") =>
        km._onedal_estimator = km.cluster_centers_

\* The last step was a successful PCA.fit.
FitSucceeded == last.call = "PCA.fit" /\ last.outcome = "ok"

====
